---- MODULE Spec2Model ----
(***************************************************************************)
(* HybridBar's configuration cache (src/config.rs): a process-wide         *)
(* RwLock<JsonValue>, the refresh operation cache(), the typed accessor    *)
(* try_get with its wrappers get_or_default and get_update_rate, and the   *)
(* variable substitution get_custom_variables / with_variables.            *)
(*                                                                         *)
(* Text is modelled by TLA+ strings (Len, SubSeq and \o act on them), a    *)
(* JsonValue by a record tagged with its variant, and an object by the     *)
(* sequence of its <<key, value>> entries in insertion order.              *)
(***************************************************************************)
EXTENDS Integers, Sequences, FiniteSets, TLC

VARIABLES
    CONFIG,     \* the JsonValue inside the RwLock (config.rs:10)
    gen,        \* number of completed swaps of CONFIG (history variable)
    wbit,       \* the lock word's flag that a writer waits for the lock
    rbit,       \* the lock word's flag that a reader waits for the lock
    rcount,     \* rcount[t]: read guards thread t holds
    wholder,    \* the thread holding the write guard, or NoThread
    wwaiting,   \* threads inside CONFIG.write(), not yet holding the guard
    poisoned,   \* the lock's poison flag: a writer panicked holding its guard
    pc,         \* pc[t]: where thread t stands
    call,       \* call[t]: the operation t runs and its arguments
    val,        \* val[t]: with_variables' result, at first its input
    vec,        \* vec[t]: the vector get_custom_variables fills and returns
    ix,         \* ix[t]: the entry the running for loop takes next
    newdoc,     \* newdoc[t]: the value read_config_raw() returned to cache()
    seen,       \* seen[t]: the generations of CONFIG the call has read (history)
    snap,       \* snap[t]: CONFIG as the call first read it (history)
    res         \* res[t]: the outcome of t's operation

vars == <<CONFIG, gen, wbit, rbit, rcount, wholder, wwaiting, poisoned, pc,
          call, val, vec, ix, newdoc, seen, snap, res>>

----------------------------------------------------------------------------
(* Text: str::contains and str::replace, as with_variables uses them.      *)

\* whether pat occurs in s at position i
MatchAt(s, pat, i) ==
    /\ i + Len(pat) - 1 <= Len(s)
    /\ SubSeq(s, i, i + Len(pat) - 1) = pat

\* str::contains(&pat): the empty pattern occurs in every string
contains(s, pat) == \E i \in 1..(Len(s) + 1) : MatchAt(s, pat, i)

RECURSIVE ReplaceFrom(_, _, _, _)
\* str::replace scans left to right and replaces the non-overlapping matches;
\* the empty pattern matches at every character boundary.
ReplaceFrom(s, from, to, i) ==
    IF i > Len(s) THEN (IF from = "" THEN to ELSE "")
    ELSE IF from = "" THEN to \o SubSeq(s, i, i) \o ReplaceFrom(s, from, to, i + 1)
    ELSE IF MatchAt(s, from, i) THEN to \o ReplaceFrom(s, from, to, i + Len(from))
    ELSE SubSeq(s, i, i) \o ReplaceFrom(s, from, to, i + 1)

replace(s, from, to) == ReplaceFrom(s, from, to, 1)

----------------------------------------------------------------------------
(* JsonValue.  A Number is kept as sign and two base-10^9 limbs so that    *)
(* numbers outside the i32 range exist in the model.                       *)

Limb == 10^9

Null      == [t |-> "Null"]
Bool(b)   == [t |-> "Boolean", b |-> b]
Str(s)    == [t |-> "String", s |-> s]
Big(neg, hi, lo) == [t |-> "Number", neg |-> neg, hi |-> hi, lo |-> lo]
\* the Number of the i32 n (|n| is taken as (-n - 1) + 1: -I32Min is no i32)
Num(n)    == IF n < 0
             THEN LET m == 0 - (n + 1)
                  IN  Big(TRUE, (m \div Limb) + (IF m % Limb = Limb - 1 THEN 1 ELSE 0),
                          ((m % Limb) + 1) % Limb)
             ELSE Big(FALSE, n \div Limb, n % Limb)
Arr(a)    == [t |-> "Array", a |-> a]
Obj(e)    == [t |-> "Object", e |-> e]

I32Max == (2^30 - 1) * 2 + 1
I32Min == (0 - I32Max) - 1

\* Option<T>
None    == [some |-> FALSE]
Some(x) == [some |-> TRUE, v |-> x]

\* position of key k among the entries e (an object holds a key once), 0
\* when absent
Find(e, k) ==
    IF \E i \in DOMAIN e : e[i][1] = k
    THEN CHOOSE i \in DOMAIN e : e[i][1] = k
    ELSE 0

\* has_key answering for the object, not for the key
has_key_AnyObject(v, k) == v.t = "Object"

\* JsonValue::has_key
has_key(v, k) == v.t = "Object" /\ Find(v.e, k) # 0

\* Index<&str> for JsonValue: Null for a missing key or a non-object
Index(v, k) ==
    IF v.t = "Object" /\ Find(v.e, k) # 0 THEN v.e[Find(v.e, k)][2] ELSE Null

\* JsonValue::entries: empty for a non-object
entries(v) == IF v.t = "Object" THEN v.e ELSE <<>>

\* as_i32 that takes the unsigned conversion: a negative number is refused
as_i32_Unsigned(v) ==
    IF v.t # "Number" \/ v.neg THEN None
    ELSE IF v.hi < 2 \/ (v.hi = 2 /\ v.lo <= 147483647)
         THEN Some(v.hi * Limb + v.lo) ELSE None

\* JsonValue::as_i32: a Number inside the i32 range, else None
as_i32(v) ==
    IF v.t # "Number" THEN None
    ELSE IF v.neg
         THEN IF v.hi < 2 \/ (v.hi = 2 /\ v.lo <= 147483648)
              THEN Some((0 - v.hi * Limb) - v.lo) ELSE None
         ELSE IF v.hi < 2 \/ (v.hi = 2 /\ v.lo <= 147483647)
              THEN Some(v.hi * Limb + v.lo) ELSE None

\* the low limb printed with its leading zeros
RECURSIVE Pad(_, _)
Pad(s, n) == IF Len(s) >= n THEN s ELSE Pad("0" \o s, n)

NumberText(v) ==
    (IF v.neg THEN "-" ELSE "") \o
    (IF v.hi = 0 THEN ToString(v.lo) ELSE ToString(v.hi) \o Pad(ToString(v.lo), 9))

RECURSIVE dump(_)
RECURSIVE DumpArr(_, _)
RECURSIVE DumpObj(_, _)
\* JsonValue::dump: the minified JSON text
dump(v) ==
    CASE v.t = "Null"    -> "null"
      [] v.t = "Boolean" -> IF v.b THEN "true" ELSE "false"
      [] v.t = "Number"  -> NumberText(v)
      [] v.t = "String"  -> "\"" \o v.s \o "\""
      [] v.t = "Array"   -> "[" \o DumpArr(v.a, 1) \o "]"
      [] v.t = "Object"  -> "{" \o DumpObj(v.e, 1) \o "}"
DumpArr(a, i) ==
    IF i > Len(a) THEN ""
    ELSE (IF i > 1 THEN "," ELSE "") \o dump(a[i]) \o DumpArr(a, i + 1)
DumpObj(e, i) ==
    IF i > Len(e) THEN ""
    ELSE (IF i > 1 THEN "," ELSE "") \o "\"" \o e[i][1] \o "\":" \o dump(e[i][2])
         \o DumpObj(e, i + 1)

\* Display for JsonValue (to_string): a string prints bare, containers dump
to_string(v) ==
    CASE v.t = "String" -> v.s
      [] v.t = "Number" -> NumberText(v)
      [] v.t = "Boolean" -> IF v.b THEN "true" ELSE "false"
      [] v.t = "Null" -> "null"
      [] OTHER -> dump(v)

----------------------------------------------------------------------------
(* The functions of config.rs, each as the outcome of its body.            *)

\* how a call ends: it panics with a message, or it returns r
Panic(msg) == [k |-> "panic", msg |-> msg]
Ret(r) == [k |-> "return", r |-> r]

\* a vector one slot short
Capacity_Short == 64 - 1

\* a vector one slot long
Capacity_Long == 64 + 1

\* heapless::Vec<_, 64> (config.rs:100, 103)
Capacity == 64

\* math::clamp_i32(value, min, max)
clamp_i32(value, min, max) ==
    IF value < min THEN min ELSE IF value > max THEN max ELSE value

\* the pair pushed with name and value swapped
variable_of_Swapped(entry) == <<to_string(entry[2]), entry[1]>>

\* get_custom_variables, config.rs:106: the pair pushed for an entry
variable_of(entry) == <<entry[1], to_string(entry[2])>>

\* get_custom_variables, config.rs:105-107: push fails on a full vector and
\* expect() panics
push(vector, item) ==
    IF Len(vector) >= Capacity
    THEN Panic("You cannot have more than 64 variables!")
    ELSE Ret(Append(vector, item))

\* the loop running over the vector from its end (.rev())
variable_at_Reversed(vector, i) == vector[Len(vector) + 1 - i]

\* with_variables, config.rs:116: the variable the i-th turn of the for loop
\* takes from the vector
variable_at(vector, i) == vector[i]

\* with_variables, config.rs:118-120: one turn of the loop
rewrite(result, variable) ==
    IF contains(result, variable[1])
    THEN replace(result, variable[1], variable[2])
    ELSE result

\* try_get filling the integer lane of a string request too
try_get_BothLanes(doc, root, key, is_string, with_custom_variables) ==
    LET config == Index(doc, root)
        grabbed_value == Index(config, key)
    IN  IF has_key(config, key)
        THEN IF ~is_string
             THEN IF as_i32(grabbed_value).some
                  THEN Ret(Some(<<"", as_i32(grabbed_value).v>>))
                  ELSE Panic("Failed parsing " \o root \o ":" \o key \o " as i32!")
             ELSE IF with_custom_variables
                  THEN [k |-> "with_variables", input |-> to_string(grabbed_value)]
                  ELSE Ret(Some(<<to_string(grabbed_value),
                                  IF as_i32(grabbed_value).some
                                  THEN as_i32(grabbed_value).v ELSE 0>>))
        ELSE Ret(None)

\* try_get from the lookup to the first of: a return, a panic, or the call
\* of with_variables on the converted value
try_get(doc, root, key, is_string, with_custom_variables) ==
    LET config == Index(doc, root)
        grabbed_value == Index(config, key)
    IN  IF has_key(config, key)
        THEN IF ~is_string
             THEN IF as_i32(grabbed_value).some
                  THEN Ret(Some(<<"", as_i32(grabbed_value).v>>))
                  ELSE Panic("Failed parsing " \o root \o ":" \o key \o " as i32!")
             ELSE IF with_custom_variables
                  THEN [k |-> "with_variables", input |-> to_string(grabbed_value)]
                  ELSE Ret(Some(<<to_string(grabbed_value), 0>>))
        ELSE Ret(None)

\* get_or_default calling unwrap() on what try_get returned
get_or_default_Unwrap(got) ==
    IF got.k = "panic" THEN got
    ELSE IF got.r.some THEN Ret(got.r.v)
    ELSE Panic("called Option::unwrap() on a None value")

\* get_or_default, given how its try_get ended
get_or_default(got) ==
    IF got.k = "panic" THEN got
    ELSE IF got.r.some THEN Ret(got.r.v) ELSE Ret(<<"", 0>>)

\* get_update_rate without the clamp
get_update_rate_Unclamped(got) ==
    IF got.k = "panic" THEN got
    ELSE LET update_rate == IF got.r.some THEN got.r.v[2] ELSE 100
         IN  IF update_rate < 0
             THEN Panic("Cannot convert update_rate into u64!")
             ELSE Ret(update_rate)

\* get_update_rate, given how its try_get ended
get_update_rate(got) ==
    IF got.k = "panic" THEN got
    ELSE LET update_rate == IF got.r.some THEN clamp_i32(got.r.v[2], 5, 10000)
                            ELSE 100
         IN  IF update_rate < 0
             THEN Panic("Cannot convert update_rate into u64!")
             ELSE Ret(update_rate)

\* what the operation op hands its caller when its try_get ended as got
Finish(op, got) ==
    CASE op = "try_get"         -> got
      [] op = "get_or_default"  -> get_or_default(got)
      [] op = "get_update_rate" -> get_update_rate(got)

----------------------------------------------------------------------------
(* Documents: what json::parse can hand read_config_raw.                   *)

Absent == [t |-> "Absent"]

\* the object with the sections given, in file order, those Absent left out
MkDoc(variables, section, hybrid) ==
    Obj(SelectSeq(<< <<"variables", variables>>, <<"S", section>>,
                     <<"hybrid", hybrid>> >>,
                  LAMBDA p : p[2] # Absent))

\* a variables section of n entries v1 -> w1, ..., vn -> wn
ManyVars(n) ==
    Obj([i \in 1..n |-> <<"v" \o ToString(i), Str("w" \o ToString(i))>>])

VarTables ==
    { Absent, Obj(<<>>), Str("FOO"),
      Obj(<< <<"A", Str("B")>>, <<"B", Str("C")>> >>),
      Obj(<< <<"B", Str("C")>>, <<"A", Str("B")>> >>),
      Obj(<< <<"FOO", Str("bar")>> >>),
      Obj(<< <<"FOO", Str("bar")>>, <<"bar", Str("FOO")>> >>),
      Obj(<< <<"O", Str("x")>>, <<"FOO", Str("bar")>> >>),
      Obj(<< <<"", Str("-")>> >>),
      Obj(<< <<"N", Num(7)>>, <<"A", Null>> >>),
      Obj(<< <<"X", Str("y")>>, <<"FOO", Str("bar")>>, <<"Z", Str("FOO")>> >>),
      ManyVars(63), ManyVars(64), ManyVars(65), ManyVars(66) }

StrVals ==
    { Str("A"), Str("FOO"), Str("xyz"), Str(""), Str("AFOOAN"), Str("v64v1") }

OtherVals ==
    { Num(0), Num(7), Num(0 - 3), Num(I32Max), Num(I32Min),
      Big(FALSE, 2, 147483648), Big(TRUE, 2, 147483649), Big(FALSE, 5, 5),
      Null, Bool(TRUE), Bool(FALSE), Str("12"),
      Obj(<<>>), Arr(<<>>), Arr(<<Num(1), Str("a")>>),
      Obj(<< <<"a", Num(1)>>, <<"b", Null>> >>) }

Rates ==
    { Num(I32Min), Num(0 - 1), Num(0), Num(3), Num(4), Num(5), Num(6),
      Num(250), Num(9999), Num(10000), Num(10001), Num(50000), Num(I32Max),
      Big(FALSE, 2, 147483648), Str("250"), Null }

SectionOf(v) == Obj(<< <<"K", v>> >>)

AllDocs ==
    { MkDoc(vt, SectionOf(v), Absent) : vt \in VarTables, v \in StrVals }
    \cup { MkDoc(vt, SectionOf(v), Absent) :
               vt \in {Absent, ManyVars(65)}, v \in OtherVals }
    \cup { MkDoc(vt, sec, Absent) :
               vt \in {Absent, Obj(<< <<"K", Str("k")>> >>)},
               sec \in {Absent, Null, Num(5), Str("K"), Obj(<<>>),
                        Obj(<< <<"J", Num(1)>> >>)} }
    \cup { MkDoc(Absent, Absent, Obj(<< <<"update_rate", r>> >>)) : r \in Rates }
    \cup { MkDoc(Absent, Absent, Obj(<<>>)), Null, Num(1), Str("S"), Arr(<<>>) }

\* the documents the concurrent refreshes alternate between
DocOne  == MkDoc(Obj(<< <<"A", Str("1")>> >>), SectionOf(Str("A")),
                 Obj(<< <<"update_rate", Num(3)>> >>))
DocTwo  == MkDoc(Obj(<< <<"B", Str("2")>> >>), SectionOf(Str("B")),
                 Obj(<< <<"update_rate", Num(250)>> >>))
ConcDocs == {DocOne, DocTwo}

Call(op, root, key, is_string, with_custom_variables) ==
    [op |-> op, root |-> root, key |-> key, is_string |-> is_string,
     with_custom_variables |-> with_custom_variables]

\* get_update_rate's own try_get (config.rs:24)
RateCall == Call("get_update_rate", "hybrid", "update_rate", FALSE, FALSE)
CacheCall == Call("cache", "", "", FALSE, FALSE)
NoCall == Call("none", "", "", FALSE, FALSE)

Lookups(ops, roots, keys) ==
    { Call(op, r, k, s, w) : op \in ops, r \in roots, k \in keys,
                             s \in BOOLEAN, w \in BOOLEAN }

AllCalls  == Lookups({"try_get", "get_or_default"},
                     {"S", "hybrid", "variables"}, {"K", "update_rate"})
             \cup {RateCall}
ConcCalls == Lookups({"try_get"}, {"S"}, {"K"})
             \cup {Call("get_or_default", "S", "K", TRUE, TRUE), RateCall}

----------------------------------------------------------------------------
(* The lock and the threads.  CONFIG is std's RwLock; its lock word holds   *)
(* the guards taken (rcount, wholder) and two flags, one set by a writer    *)
(* and one by a reader that found the lock taken and went to sleep.         *)

Threads  == {"t1", "t2", "t3"}
NoThread == "none"

\* refreshes a behaviour may start
MaxRefresh == 2

\* CONFIG.read() is admitted: no writer holds the lock, no reader sleeps on
\* it, and no writer has flagged that it waits; a reader that was woken from
\* its sleep is also admitted past that flag when the lock is read-held
CanRead(t) ==
    /\ wholder = NoThread
    /\ ~rbit
    /\ \/ ~wbit
       \/ /\ pc[t] \in {"tg_woken", "gcv_woken"}
          /\ \E u \in Threads : rcount[u] > 0

\* a lock that lets a writer in past the readers
CanWrite_IgnoreReaders == wholder = NoThread

\* CONFIG.write() is admitted: nobody holds the lock
CanWrite == wholder = NoThread /\ \A u \in Threads : rcount[u] = 0

\* a cache that starts out with a document in it
InitialDocument_Loaded == DocOne

\* RwLock::new(JsonValue::Null)
InitialDocument == Null

Init ==
    /\ CONFIG = InitialDocument
    /\ gen = 0
    /\ wbit = FALSE
    /\ rbit = FALSE
    /\ rcount = [t \in Threads |-> 0]
    /\ wholder = NoThread
    /\ wwaiting = {}
    /\ poisoned = FALSE
    /\ pc = [t \in Threads |-> "idle"]
    /\ call = [t \in Threads |-> NoCall]
    /\ val = [t \in Threads |-> ""]
    /\ vec = [t \in Threads |-> <<>>]
    /\ ix = [t \in Threads |-> 1]
    /\ newdoc = [t \in Threads |-> Null]
    /\ seen = [t \in Threads |-> {}]
    /\ snap = [t \in Threads |-> Null]
    /\ res = [t \in Threads |-> Ret(None)]

\* writers asleep in CONFIG.write()
ParkedWriters == {u \in Threads : pc[u] = "c_park"}

\* every reader asleep in CONFIG.read() is woken and tries again
WakeReaders(at) ==
    [u \in Threads |-> IF at[u] = "tg_park" THEN "tg_woken"
                       ELSE IF at[u] = "gcv_park" THEN "gcv_woken"
                       ELSE at[u]]

\* a writer that has set the writers' flag and does not sleep yet finds the
\* flag cleared or the wake-up counter moved, and tries again without sleeping
SkipSleep(at) ==
    [u \in Threads |-> IF at[u] = "c_flag" THEN "c_woken" ELSE at[u]]

\* the drop of the guard that leaves the lock free, the threads standing as
\* in at and the writers' flag as in ww: the flag is cleared and one sleeping
\* writer is woken; the sleeping readers are woken when no writer slept (a
\* writer that had set the flag and was not yet asleep does not count), which
\* a dropped read guard does only if the writers' flag was set
Unlock(at, ww, byWriter) ==
    IF ww /\ ParkedWriters # {}
    THEN /\ \E w \in ParkedWriters :
               pc' = [SkipSleep(at) EXCEPT ![w] = "c_woken"]
         /\ wbit' = FALSE
         /\ rbit' = rbit
    ELSE IF ww \/ (rbit /\ byWriter)
    THEN /\ pc' = WakeReaders(SkipSleep(at))
         /\ wbit' = FALSE
         /\ rbit' = FALSE
    ELSE /\ pc' = at
         /\ wbit' = FALSE
         /\ rbit' = rbit

\* the call ends with outcome r: its read guards are dropped (a return drops
\* them at the end of the scope, a panic while unwinding), and a panic of the
\* thread that holds the write guard poisons the lock
End(t, r) ==
    /\ res' = [res EXCEPT ![t] = r]
    /\ rcount' = [rcount EXCEPT ![t] = 0]
    /\ poisoned' = (poisoned \/ (r.k = "panic" /\ wholder = t))
    /\ LET at == [pc EXCEPT ![t] = IF r.k = "panic" THEN "panicked"
                                   ELSE "done"]
       IN  IF rcount[t] > 0 /\ \A u \in Threads \ {t} : rcount[u] = 0
           THEN Unlock(at, wbit, FALSE)
           ELSE /\ pc' = at
                /\ UNCHANGED <<wbit, rbit>>

\* what unwrap() panics with on the Err of a poisoned lock
PoisonError == Panic("called Result::unwrap() on an Err value: PoisonError")

\* a caller starts try_get, get_or_default or get_update_rate
Start(t, calls) ==
    /\ pc[t] = "idle"
    /\ \E c \in calls :
          call' = [call EXCEPT ![t] = c]
    /\ pc' = [pc EXCEPT ![t] = "tg_read"]
    /\ UNCHANGED <<CONFIG, gen, wbit, rbit, rcount, wholder, wwaiting,
                   poisoned, val, vec, ix, newdoc, seen, snap, res>>

\* CONFIG.read(), config.rs:59 and 101, on a lock that does not admit the
\* reader: it sets the readers' flag and sleeps until an unlock wakes it (a
\* reader the unlock overtakes between the two finds the lock word changed,
\* does not sleep and goes on as a woken one, which is what the woken sleeper
\* does)
ReadPark(t) ==
    /\ pc[t] \in {"tg_read", "tg_woken", "gcv_read", "gcv_woken"}
    /\ ~CanRead(t)
    /\ rbit' = TRUE
    /\ pc' = [pc EXCEPT ![t] = IF @ \in {"tg_read", "tg_woken"}
                               THEN "tg_park" ELSE "gcv_park"]
    /\ UNCHANGED <<CONFIG, gen, wbit, rcount, wholder, wwaiting, poisoned,
                   call, val, vec, ix, newdoc, seen, snap, res>>

\* try_get looking at CONFIG through a guard it drops at once
TgRead_Unguarded(t) ==
    /\ pc[t] \in {"tg_read", "tg_woken"}
    /\ CanRead(t)
    /\ IF poisoned
       THEN End(t, Finish(call[t].op, PoisonError))
       ELSE /\ pc' = [pc EXCEPT ![t] = "tg_look"]
            /\ UNCHANGED <<wbit, rbit, rcount, poisoned, res>>
    /\ seen' = [seen EXCEPT ![t] = @ \cup {gen}]
    /\ snap' = [snap EXCEPT ![t] = CONFIG]
    /\ UNCHANGED <<CONFIG, gen, wholder, wwaiting, call, val, vec, ix,
                   newdoc>>

\* try_get, config.rs:59: CONFIG.read().unwrap() and the index by root
TgRead(t) ==
    /\ pc[t] \in {"tg_read", "tg_woken"}
    /\ CanRead(t)
    /\ IF poisoned
       THEN End(t, Finish(call[t].op, PoisonError))
       ELSE /\ rcount' = [rcount EXCEPT ![t] = @ + 1]
            /\ pc' = [pc EXCEPT ![t] = "tg_look"]
            /\ UNCHANGED <<wbit, rbit, poisoned, res>>
    /\ seen' = [seen EXCEPT ![t] = @ \cup {gen}]
    /\ snap' = [snap EXCEPT ![t] = CONFIG]
    /\ UNCHANGED <<CONFIG, gen, wholder, wwaiting, call, val, vec, ix,
                   newdoc>>

\* try_get, config.rs:60-83, up to a return, a panic or the call of
\* with_variables
TgLook(t) ==
    /\ pc[t] = "tg_look"
    /\ LET c == call[t]
           out == try_get(CONFIG, c.root, c.key, c.is_string,
                          c.with_custom_variables)
       IN  IF out.k = "with_variables"
           THEN /\ val' = [val EXCEPT ![t] = out.input]
                /\ pc' = [pc EXCEPT ![t] = "gcv_read"]
                /\ UNCHANGED <<wbit, rbit, rcount, poisoned, res>>
           ELSE /\ End(t, Finish(c.op, out))
                /\ UNCHANGED val
    /\ seen' = [seen EXCEPT ![t] = @ \cup {gen}]
    /\ UNCHANGED <<CONFIG, gen, wholder, wwaiting, call, vec, ix,
                   newdoc, snap>>

\* get_custom_variables, config.rs:101-103: CONFIG.read().unwrap() again, the
\* guard of try_get still held, and the empty vector
GcvRead(t) ==
    /\ pc[t] \in {"gcv_read", "gcv_woken"}
    /\ CanRead(t)
    /\ IF poisoned
       THEN End(t, Finish(call[t].op, PoisonError))
       ELSE /\ rcount' = [rcount EXCEPT ![t] = @ + 1]
            /\ pc' = [pc EXCEPT ![t] = "gcv_push"]
            /\ UNCHANGED <<wbit, rbit, poisoned, res>>
    /\ vec' = [vec EXCEPT ![t] = <<>>]
    /\ ix' = [ix EXCEPT ![t] = 1]
    /\ seen' = [seen EXCEPT ![t] = @ \cup {gen}]
    /\ UNCHANGED <<CONFIG, gen, wholder, wwaiting, call, val, newdoc,
                   snap>>

\* get_custom_variables, config.rs:104-110: one turn of the loop over the
\* entries of the variables section, or past the last entry the return of
\* the vector, which drops the inner guard
GcvPush(t) ==
    /\ pc[t] = "gcv_push"
    /\ LET cfg == entries(Index(CONFIG, "variables"))
           out == push(vec[t], variable_of(cfg[ix[t]]))
       IN  IF ix[t] > Len(cfg)
           THEN /\ rcount' = [rcount EXCEPT ![t] = @ - 1]
                /\ ix' = [ix EXCEPT ![t] = 1]
                /\ pc' = [pc EXCEPT ![t] = "wv_loop"]
                /\ UNCHANGED <<wbit, rbit, vec, poisoned, res>>
           ELSE IF out.k = "panic"
           THEN /\ End(t, Finish(call[t].op, out))
                /\ UNCHANGED <<vec, ix>>
           ELSE /\ vec' = [vec EXCEPT ![t] = out.r]
                /\ ix' = [ix EXCEPT ![t] = @ + 1]
                /\ UNCHANGED <<wbit, rbit, rcount, poisoned, pc, res>>
    /\ seen' = [seen EXCEPT ![t] = @ \cup {gen}]
    /\ UNCHANGED <<CONFIG, gen, wholder, wwaiting, call, val, newdoc,
                   snap>>

\* with_variables, config.rs:116-123: one turn of the loop over the vector,
\* or past its last variable the return of the result and with it try_get's
\* return at line 76
WvLoop(t) ==
    /\ pc[t] = "wv_loop"
    /\ IF ix[t] > Len(vec[t])
       THEN /\ End(t, Finish(call[t].op, Ret(Some(<<val[t], 0>>))))
            /\ UNCHANGED <<val, ix>>
       ELSE /\ val' = [val EXCEPT ![t] = rewrite(@, variable_at(vec[t], ix[t]))]
            /\ ix' = [ix EXCEPT ![t] = @ + 1]
            /\ UNCHANGED <<wbit, rbit, rcount, poisoned, pc, res>>
    /\ UNCHANGED <<CONFIG, gen, wholder, wwaiting, call, vec, newdoc,
                   seen, snap>>

\* the caller has its result and the thread is free for the next call
Return(t) ==
    /\ pc[t] = "done"
    /\ pc' = [pc EXCEPT ![t] = "idle"]
    /\ call' = [call EXCEPT ![t] = NoCall]
    /\ val' = [val EXCEPT ![t] = ""]
    /\ vec' = [vec EXCEPT ![t] = <<>>]
    /\ ix' = [ix EXCEPT ![t] = 1]
    /\ newdoc' = [newdoc EXCEPT ![t] = Null]
    /\ seen' = [seen EXCEPT ![t] = {}]
    /\ snap' = [snap EXCEPT ![t] = Null]
    /\ res' = [res EXCEPT ![t] = Ret(None)]
    /\ UNCHANGED <<CONFIG, gen, wbit, rbit, rcount, wholder, wwaiting,
                   poisoned>>

\* refreshes started and not yet swapped in
Refreshing ==
    {u \in Threads : pc[u] \in {"c_parse", "c_write", "c_wait", "c_flag",
                                "c_park", "c_woken", "c_swap"}}

\* a cache() that takes the write guard first and reads the file under it
CacheStart_LockFirst(t, max) ==
    /\ pc[t] = "idle"
    /\ gen + Cardinality(Refreshing) < max
    /\ CanWrite
    /\ wholder' = t
    /\ call' = [call EXCEPT ![t] = CacheCall]
    /\ pc' = [pc EXCEPT ![t] = "c_parse"]
    /\ UNCHANGED <<CONFIG, gen, wbit, rbit, rcount, wwaiting, poisoned, val,
                   vec, ix, newdoc, seen, snap, res>>

\* a caller starts cache(); a behaviour starts at most max refreshes
CacheStart(t, max) ==
    /\ pc[t] = "idle"
    /\ gen + Cardinality(Refreshing) < max
    /\ call' = [call EXCEPT ![t] = CacheCall]
    /\ pc' = [pc EXCEPT ![t] = "c_parse"]
    /\ UNCHANGED <<CONFIG, gen, wbit, rbit, rcount, wholder, wwaiting,
                   poisoned, val, vec, ix, newdoc, seen, snap, res>>

\* read_config_raw counting the variables of the document it has parsed
read_config_raw_CheckBound(t, docs) ==
    /\ pc[t] = "c_parse"
    /\ \E d \in docs :
          /\ newdoc' = [newdoc EXCEPT ![t] = d]
          /\ IF Len(entries(Index(d, "variables"))) > Capacity
             THEN End(t, Panic("You cannot have more than 64 variables!"))
             ELSE /\ pc' = [pc EXCEPT ![t] = "c_write"]
                  /\ UNCHANGED <<wbit, rbit, rcount, poisoned, res>>
    /\ UNCHANGED <<CONFIG, gen, wholder, wwaiting, call, val, vec, ix,
                   seen, snap>>

\* read_config_raw, config.rs:40-48: the right-hand side of the assignment
\* is evaluated first; an unreadable or unparsable file panics
read_config_raw(t, docs) ==
    /\ pc[t] = "c_parse"
    /\ \/ /\ \E d \in docs : newdoc' = [newdoc EXCEPT ![t] = d]
          /\ pc' = [pc EXCEPT ![t] = "c_write"]
          /\ UNCHANGED <<wbit, rbit, rcount, poisoned, res>>
       \/ /\ \E msg \in {"Failed reading config file!",
                           "Failed parsing config!"} : End(t, Panic(msg))
          /\ UNCHANGED newdoc
    /\ UNCHANGED <<CONFIG, gen, wholder, wwaiting, call, val, vec, ix,
                   seen, snap>>

\* cache, config.rs:36: CONFIG.write() is called, the parsed document in hand
CacheRequest(t) ==
    /\ pc[t] = "c_write"
    /\ wwaiting' = wwaiting \cup {t}
    /\ pc' = [pc EXCEPT ![t] = "c_wait"]
    /\ UNCHANGED <<CONFIG, gen, wbit, rbit, rcount, wholder, poisoned, call,
                   val, vec, ix, newdoc, seen, snap, res>>

\* CONFIG.write(), config.rs:36, on a lock somebody holds: the writer sets
\* the writers' flag
WriteFlag(t) ==
    /\ pc[t] \in {"c_wait", "c_woken"}
    /\ ~CanWrite
    /\ wbit' = TRUE
    /\ pc' = [pc EXCEPT ![t] = "c_flag"]
    /\ UNCHANGED <<CONFIG, gen, rbit, rcount, wholder, wwaiting, poisoned,
                   call, val, vec, ix, newdoc, seen, snap, res>>

\* CONFIG.write(), config.rs:36: the writer, its flag set and no unlock
\* having come since, sleeps until an unlock wakes it
WritePark(t) ==
    /\ pc[t] = "c_flag"
    /\ pc' = [pc EXCEPT ![t] = "c_park"]
    /\ UNCHANGED <<CONFIG, gen, wbit, rbit, rcount, wholder, wwaiting,
                   poisoned, call, val, vec, ix, newdoc, seen, snap, res>>

\* cache, config.rs:36: CONFIG.write() returns, and unwrap() hands over the
\* guard or panics on a poisoned lock (the guard inside the Err is dropped);
\* a writer that has slept sets the writers' flag again as it takes the lock,
\* for the writers that may still sleep
CacheWrite(t) ==
    /\ pc[t] \in {"c_wait", "c_woken"}
    /\ CanWrite
    /\ wwaiting' = wwaiting \ {t}
    /\ IF poisoned
       THEN /\ res' = [res EXCEPT ![t] = PoisonError]
            /\ Unlock([pc EXCEPT ![t] = "panicked"],
                      wbit \/ pc[t] = "c_woken", TRUE)
            /\ UNCHANGED <<wholder, rcount, poisoned>>
       ELSE /\ wholder' = t
            /\ wbit' = (wbit \/ pc[t] = "c_woken")
            /\ pc' = [pc EXCEPT ![t] = "c_swap"]
            /\ UNCHANGED <<rbit, rcount, poisoned, res>>
    /\ UNCHANGED <<CONFIG, gen, call, val, vec, ix, newdoc, seen, snap>>

\* a swap that keeps the variables section of the document it replaces
CacheSwap_KeepVariables(t) ==
    /\ pc[t] = "c_swap"
    /\ CONFIG' = IF CONFIG.t = "Object" /\ newdoc[t].t = "Object"
                 THEN Obj([i \in DOMAIN newdoc[t].e |->
                             IF newdoc[t].e[i][1] = "variables"
                             THEN <<"variables", Index(CONFIG, "variables")>>
                             ELSE newdoc[t].e[i]])
                 ELSE newdoc[t]
    /\ gen' = gen + 1
    /\ wholder' = NoThread
    /\ res' = [res EXCEPT ![t] = Ret(None)]
    /\ Unlock([pc EXCEPT ![t] = "done"], wbit, TRUE)
    /\ UNCHANGED <<rcount, wwaiting, poisoned, call, val, vec, ix,
                   newdoc, seen, snap>>

\* a swap that counts the variables of the new document under the write
\* guard and panics over more than 64
CacheSwap_CheckBound(t) ==
    /\ pc[t] = "c_swap"
    /\ CONFIG' = newdoc[t]
    /\ gen' = gen + 1
    /\ wholder' = NoThread
    /\ LET over == Len(entries(Index(newdoc[t], "variables"))) > Capacity
       IN  /\ res' = [res EXCEPT ![t] =
                        IF over
                        THEN Panic("You cannot have more than 64 variables!")
                        ELSE Ret(None)]
           /\ poisoned' = (poisoned \/ over)
           /\ Unlock([pc EXCEPT ![t] = IF over THEN "panicked" ELSE "done"],
                     wbit, TRUE)
    /\ UNCHANGED <<rcount, wwaiting, call, val, vec, ix, newdoc, seen, snap>>

\* cache, config.rs:36: the assignment through the guard, which is dropped
\* at the end of the statement
CacheSwap(t) ==
    /\ pc[t] = "c_swap"
    /\ CONFIG' = newdoc[t]
    /\ gen' = gen + 1
    /\ wholder' = NoThread
    /\ res' = [res EXCEPT ![t] = Ret(None)]
    /\ Unlock([pc EXCEPT ![t] = "done"], wbit, TRUE)
    /\ UNCHANGED <<rcount, wwaiting, poisoned, call, val, vec, ix,
                   newdoc, seen, snap>>

\* the steps of one thread's calls
Step(t, calls, docs, max) ==
    \/ Start(t, calls)
    \/ TgRead(t)
    \/ TgLook(t)
    \/ GcvRead(t)
    \/ GcvPush(t)
    \/ WvLoop(t)
    \/ Return(t)
    \/ CacheStart(t, max)
    \/ read_config_raw(t, docs)
    \/ CacheRequest(t)
    \/ CacheWrite(t)
    \/ CacheSwap(t)

\* the steps a thread takes only when another thread is in its way
Contend(t) ==
    \/ ReadPark(t)
    \/ WriteFlag(t)
    \/ WritePark(t)

\* threads calling into the cache concurrently
Next ==
    \E t \in Threads : Step(t, ConcCalls, ConcDocs, MaxRefresh) \/ Contend(t)

Spec == Init /\ [][Next]_vars

\* a call under way takes its next step: everything but the caller's choice
\* to start a call or to go on after one
Progress(t) ==
    \/ TgRead(t)
    \/ TgLook(t)
    \/ GcvRead(t)
    \/ GcvPush(t)
    \/ WvLoop(t)
    \/ read_config_raw(t, ConcDocs)
    \/ CacheRequest(t)
    \/ CacheWrite(t)
    \/ CacheSwap(t)
    \/ ReadPark(t)
    \/ WriteFlag(t)
    \/ WritePark(t)

LiveCalls == Lookups({"try_get"}, {"S"}, {"K"})

NextLive ==
    \E t \in {"t1", "t2"} :
        Step(t, LiveCalls, ConcDocs, MaxRefresh) \/ Contend(t)

\* two threads, each scheduled again and again while its call can take a
\* step (every step of a call moves pc or ix), and a writer that finds the
\* lock free again and again takes it in the end
SpecLive ==
    /\ Init
    /\ [][NextLive]_vars
    /\ \A t \in {"t1", "t2"} : WF_<<pc, ix>>(Progress(t))
    /\ \A t \in {"t1", "t2"} : SF_<<pc, ix>>(CacheWrite(t))

\* two threads, a document of 65 variables among those the refreshes load,
\* and lookups that fail on it and on a string asked for as an integer
DocOver == MkDoc(ManyVars(65), SectionOf(Str("v64v1")), Absent)
FailDocs == {DocOne, DocOver}
FailCalls == {Call("try_get", "S", "K", TRUE, TRUE),
              Call("try_get", "S", "K", FALSE, FALSE)}

NextFail ==
    \E t \in {"t1", "t2"} :
        Step(t, FailCalls, FailDocs, MaxRefresh) \/ Contend(t)

SpecFail == Init /\ [][NextFail]_vars

\* one thread loads one document and queries it; alone, it never finds the
\* lock taken
NextSeq == \E t \in {"t1"} : Step(t, AllCalls, AllDocs, 1)

SpecSeq == Init /\ [][NextSeq]_vars

----------------------------------------------------------------------------
(* What a document holds, read off its entries.                            *)

Finished(t) == pc[t] \in {"done", "panicked"}

IsLookup(t) == call[t].op \in {"try_get", "get_or_default", "get_update_rate"}

\* doc has an object section root with an entry key
KeyPresent(doc, root, key) ==
    /\ doc.t = "Object"
    /\ \E i \in DOMAIN doc.e :
          /\ doc.e[i][1] = root
          /\ doc.e[i][2].t = "Object"
          /\ \E j \in DOMAIN doc.e[i][2].e : doc.e[i][2].e[j][1] = key

\* the value of that entry
ValueAt(doc, root, key) ==
    LET sec == doc.e[CHOOSE i \in DOMAIN doc.e : doc.e[i][1] = root][2]
    IN  sec.e[CHOOSE j \in DOMAIN sec.e : sec.e[j][1] = key][2]

\* the (name, value text) pairs of doc's variables section, in file order
TableOf(doc) ==
    IF doc.t = "Object"
            /\ \E i \in DOMAIN doc.e :
                  doc.e[i][1] = "variables" /\ doc.e[i][2].t = "Object"
    THEN LET e == doc.e[CHOOSE i \in DOMAIN doc.e : doc.e[i][1] = "variables"][2].e
         IN  [i \in DOMAIN e |-> <<e[i][1], to_string(e[i][2])>>]
    ELSE <<>>

\* the 32-bit integers the documents hold
I32Samples ==
    { I32Min, 0 - 3, 0 - 1, 0, 1, 3, 4, 5, 6, 7, 250, 9999, 10000, 10001,
      50000, I32Max }

\* the value is a JSON integer that fits an i32
IntShaped(v) == \E n \in I32Samples : v = Num(n)

RECURSIVE FoldReplace(_, _, _, _)
\* the fold goes on over the entries lo..hi with the text produced so far
\* (the comparison has the text computed before the fold goes on)
FoldOnward(sofar, table, lo, hi) ==
    IF sofar = sofar THEN FoldReplace(sofar, table, lo, hi) ELSE sofar

\* the left fold of replace-all over the entries lo..hi of the table: the
\* entries up to the middle first, the rest on what they produced
FoldReplace(text, table, lo, hi) ==
    IF lo > hi THEN text
    ELSE IF lo = hi THEN replace(text, table[lo][1], table[lo][2])
    ELSE FoldOnward(FoldReplace(text, table, lo, (lo + hi) \div 2),
                    table, ((lo + hi) \div 2) + 1, hi)

\* a lookup run start to end on the one document doc
LookupOn(doc, c) ==
    LET out == try_get(doc, c.root, c.key, c.is_string, c.with_custom_variables)
        table == TableOf(doc)
    IN  Finish(c.op,
               IF out.k # "with_variables" THEN out
               ELSE IF Len(table) > 64
                    THEN Panic("You cannot have more than 64 variables!")
               ELSE Ret(Some(<<FoldReplace(out.input, table, 1, Len(table)), 0>>)))

----------------------------------------------------------------------------
(* The claims.                                                             *)

\* C1: under any interleaving of cache() and lookups, every lookup reads one
\* generation of CONFIG only, its result is the one a lookup on that single
\* fully loaded document gives, and no thread holds a read guard while a
\* writer holds the lock.
C1_AtomicSwap ==
    /\ wholder # NoThread => \A u \in Threads : rcount[u] = 0
    /\ \A t \in Threads :
          /\ Cardinality(seen[t]) <= 1
          /\ snap[t] \in ConcDocs \cup {Null}
          /\ (Finished(t) /\ IsLookup(t)) => res[t] = LookupOn(snap[t], call[t])

\* a reader got its substituted value from the first document, a refresh has
\* since installed the second one, and two other threads read it together
C1_Witness ==
    \E t \in Threads :
       /\ pc[t] = "done" /\ call[t] = Call("try_get", "S", "K", TRUE, TRUE)
       /\ snap[t] = DocOne /\ res[t] = Ret(Some(<<"1", 0>>))
       /\ CONFIG = DocTwo
       /\ \A u \in Threads \ {t} : rcount[u] > 0

\* C2: when the section or the key under it is absent, try_get returns None
\* for both flags and never panics, and goes nowhere near the substitution.
C2_AbsentIsNone ==
    \A t \in Threads :
       (call[t].op = "try_get"
        /\ pc[t] \notin {"tg_read", "tg_park", "tg_woken", "tg_look"}
        /\ ~KeyPresent(snap[t], call[t].root, call[t].key))
       => (Finished(t) /\ res[t] = Ret(None))

\* a lookup of K in a section that has only J came back None
C2_Witness ==
    /\ pc["t1"] = "done"
    /\ call["t1"] = Call("try_get", "S", "K", TRUE, TRUE)
    /\ snap["t1"] = MkDoc(Absent, Obj(<< <<"J", Num(1)>> >>), Absent)
    /\ res["t1"] = Ret(None)

\* C3: when section S holds key K with the integer V, try_get with
\* is_string = FALSE returns Some(("", V)) for either substitution flag.
C3_IntegerLane ==
    \A t \in Threads : \A V \in I32Samples :
       (Finished(t) /\ call[t].op = "try_get" /\ ~call[t].is_string
        /\ KeyPresent(snap[t], call[t].root, call[t].key)
        /\ ValueAt(snap[t], call[t].root, call[t].key) = Num(V))
       => res[t] = Ret(Some(<<"", V>>))

\* the integer -3 was fetched with the substitution flag set
C3_Witness ==
    /\ pc["t1"] = "done"
    /\ call["t1"] = Call("try_get", "S", "K", FALSE, TRUE)
    /\ snap["t1"] = MkDoc(Absent, SectionOf(Num(0 - 3)), Absent)
    /\ res["t1"] = Ret(Some(<<"", 0 - 3>>))

\* name occurs in text as a substring
Occurs(name, text) ==
    \E i \in 1..(Len(text) - Len(name) + 1) :
       SubSeq(text, i, i + Len(name) - 1) = name

\* t ran try_get to its end on a key its document holds
FoundBy(t) ==
    /\ Finished(t) /\ call[t].op = "try_get"
    /\ KeyPresent(snap[t], call[t].root, call[t].key)

\* the value t's lookup found
Found(t) == ValueAt(snap[t], call[t].root, call[t].key)

IsSome(r) == r.k = "return" /\ r.r.some

\* C4 as stated: a present value that is no i32, asked for as an integer, is
\* fatal, and any present value asked for as a string comes back Some, for
\* every document and both substitution flags.
C4_Original ==
    \A t \in Threads :
       FoundBy(t) =>
          /\ (~call[t].is_string /\ ~IntShaped(Found(t))) => res[t].k = "panic"
          /\ call[t].is_string => IsSome(res[t])

\* C4, amended: a present value that is no i32, asked for as an integer, is
\* fatal; a present value asked for as a string is never fatal and comes back
\* Some when substitution is off or the variables section has at most 64
\* entries.
C4_StringLane ==
    \A t \in Threads :
       FoundBy(t) =>
          /\ (~call[t].is_string /\ ~IntShaped(Found(t))) => res[t].k = "panic"
          /\ (call[t].is_string
              /\ (~call[t].with_custom_variables \/ Len(TableOf(snap[t])) <= 64))
             => IsSome(res[t])

\* a string came back substituted from a document with exactly 64 variables
C4_Witness ==
    /\ FoundBy("t1")
    /\ call["t1"].is_string /\ call["t1"].with_custom_variables
    /\ Len(TableOf(snap["t1"])) = 64
    /\ Found("t1") = Str("v64v1")
    /\ res["t1"] = Ret(Some(<<"w64w1", 0>>))

\* C5 as stated (the doc comment of try_get, config.rs:51): try_get panics if
\* is_string is true and as_i32 of the value found fails.
C5_Original ==
    \A t \in Threads :
       (FoundBy(t) /\ call[t].is_string /\ ~as_i32(Found(t)).some)
       => res[t].k = "panic"

\* C6: until the first cache() completes CONFIG is Null, and every try_get
\* that reads it returns None, whatever its arguments, without panicking.
C6_NullPlaceholder ==
    /\ gen = 0 => CONFIG = Null
    /\ \A t \in Threads :
          (call[t].op = "try_get" /\ seen[t] = {0} /\ pc[t] # "tg_look")
          => (pc[t] = "done" /\ res[t] = Ret(None))

\* before any refresh, a string lookup with substitution came back None
C6_Witness ==
    /\ gen = 0
    /\ pc["t1"] = "done"
    /\ call["t1"] = Call("try_get", "S", "K", TRUE, TRUE)
    /\ seen["t1"] = {0}
    /\ res["t1"] = Ret(None)

TableAB == Obj(<< <<"A", Str("B")>>, <<"B", Str("C")>> >>)
DocAB == MkDoc(TableAB, SectionOf(Str("A")), Absent)

\* C7: a substituted result is the left fold of replace-all over the variable
\* table in document order, each step working on the text the step before
\* it produced; with the table [(A, B), (B, C)] the value "A" becomes "C"
\* (and "AFOOAN", every A replaced, "CFOOCN").
C7_SequentialFold ==
    \A t \in Threads :
       (FoundBy(t) /\ call[t].is_string /\ call[t].with_custom_variables)
       => /\ res[t].k = "return" =>
                res[t] = Ret(Some(<<FoldReplace(to_string(Found(t)),
                                                TableOf(snap[t]), 1,
                                                Len(TableOf(snap[t]))), 0>>))
          /\ (snap[t] = DocAB /\ call[t].root = "S")
                => res[t] = Ret(Some(<<"C", 0>>))
          /\ (snap[t] = MkDoc(TableAB, SectionOf(Str("AFOOAN")), Absent)
              /\ call[t].root = "S")
                => res[t] = Ret(Some(<<"CFOOCN", 0>>))

\* "A" was looked up under the table [(A, B), (B, C)] and came back "C"
C7_Witness ==
    /\ pc["t1"] = "done"
    /\ call["t1"] = Call("try_get", "S", "K", TRUE, TRUE)
    /\ snap["t1"] = DocAB
    /\ res["t1"] = Ret(Some(<<"C", 0>>))

\* the table defines FOO -> bar
DefinesFooBar(table) == \E i \in DOMAIN table : table[i] = <<"FOO", "bar">>

\* no variable other than FOO has a name occurring in "FOO" or in "bar"
FooBarAlone(table) ==
    \A j \in DOMAIN table :
       table[j][1] # "FOO" =>
          ~Occurs(table[j][1], "FOO") /\ ~Occurs(table[j][1], "bar")

\* C8 as stated: when no defined variable name occurs in the string value,
\* try_get with substitution returns what it returns without; and when the
\* variables section defines FOO -> bar, the value "FOO" becomes "bar".
C8_Original ==
    \A t \in Threads :
       (FoundBy(t) /\ call[t].is_string /\ call[t].with_custom_variables)
       => LET table == TableOf(snap[t])
              text == to_string(Found(t))
          IN  /\ (\A i \in DOMAIN table : ~Occurs(table[i][1], text))
                   => res[t] = try_get(snap[t], call[t].root, call[t].key,
                                       TRUE, FALSE)
              /\ (DefinesFooBar(table) /\ Found(t) = Str("FOO"))
                   => res[t] = Ret(Some(<<"bar", 0>>))

\* C8, amended: both hold when the variables section has at most 64 entries,
\* the second when, besides, no other variable's name occurs in "FOO" or in
\* "bar".
C8_Identity ==
    \A t \in Threads :
       (FoundBy(t) /\ call[t].is_string /\ call[t].with_custom_variables
        /\ Len(TableOf(snap[t])) <= 64)
       => LET table == TableOf(snap[t])
              text == to_string(Found(t))
          IN  /\ (\A i \in DOMAIN table : ~Occurs(table[i][1], text))
                   => res[t] = try_get(snap[t], call[t].root, call[t].key,
                                       TRUE, FALSE)
              /\ (DefinesFooBar(table) /\ FooBarAlone(table)
                  /\ Found(t) = Str("FOO"))
                   => res[t] = Ret(Some(<<"bar", 0>>))

DocFoo == MkDoc(Obj(<< <<"X", Str("y")>>, <<"FOO", Str("bar")>>,
                       <<"Z", Str("FOO")>> >>),
                SectionOf(Str("FOO")), Absent)

\* "FOO" came back "bar" under a table that also defines X and Z
C8_Witness ==
    /\ pc["t1"] = "done"
    /\ call["t1"] = Call("try_get", "S", "K", TRUE, TRUE)
    /\ snap["t1"] = DocFoo
    /\ res["t1"] = Ret(Some(<<"bar", 0>>))

\* C9: collecting the variables of a document that defines 65 or more is
\* fatal, collecting exactly 64 succeeds, and no vector get_custom_variables
\* returned holds more than 64 entries.
C9_VariableBound ==
    \A t \in Threads :
       /\ Len(vec[t]) <= 64
       /\ (FoundBy(t) /\ call[t].is_string /\ call[t].with_custom_variables)
          => /\ Len(TableOf(snap[t])) >= 65
                  => res[t] = Panic("You cannot have more than 64 variables!")
             /\ Len(TableOf(snap[t])) = 64
                  => (res[t].k = "return" /\ Len(vec[t]) = 64)

\* a substitution under 65 variables panicked
C9_Witness ==
    /\ pc["t1"] = "panicked"
    /\ call["t1"] = Call("try_get", "S", "K", TRUE, TRUE)
    /\ Len(TableOf(snap["t1"])) = 65
    /\ res["t1"] = Panic("You cannot have more than 64 variables!")

RateDoc(n) == MkDoc(Absent, Absent, Obj(<< <<"update_rate", Num(n)>> >>))

\* C10: get_update_rate returns 100 when hybrid/update_rate is absent and the
\* configured i32 clamped into [5, 10000] otherwise (3 -> 5, 50000 -> 10000,
\* 250 -> 250); every result lies in [5, 10000] and the conversion to u64
\* never fails.
C10_UpdateRate ==
    \A t \in Threads :
       (Finished(t) /\ call[t].op = "get_update_rate")
       => /\ ~KeyPresent(snap[t], "hybrid", "update_rate") => res[t] = Ret(100)
          /\ \A V \in I32Samples :
                (KeyPresent(snap[t], "hybrid", "update_rate") /\ Found(t) = Num(V))
                => res[t] = Ret(IF V < 5 THEN 5 ELSE IF V > 10000 THEN 10000 ELSE V)
          /\ snap[t] = RateDoc(3) => res[t] = Ret(5)
          /\ snap[t] = RateDoc(50000) => res[t] = Ret(10000)
          /\ snap[t] = RateDoc(250) => res[t] = Ret(250)
          /\ res[t].k = "return" => res[t].r \in 5..10000
          /\ res[t] # Panic("Cannot convert update_rate into u64!")

\* the smallest i32 was configured and the rate came back 5
C10_Witness ==
    /\ pc["t1"] = "done"
    /\ call["t1"] = RateCall
    /\ snap["t1"] = RateDoc(I32Min)
    /\ res["t1"] = Ret(5)

\* the try_get that get_or_default's call c makes (config.rs:96)
InnerCall(c) == [c EXCEPT !.op = "try_get"]

\* C11: get_or_default returns the tuple inside try_get's Some, ("", 0) where
\* try_get returns None, and is fatal exactly where the try_get of the same
\* arguments on the same document is fatal, with the same panic.
C11_GetOrDefault ==
    \A t \in Threads :
       /\ (Finished(t) /\ call[t].op = "try_get")
          => res[t] = LookupOn(snap[t], call[t])
       /\ (Finished(t) /\ call[t].op = "get_or_default")
          => LET got == LookupOn(snap[t], InnerCall(call[t]))
             IN  /\ (res[t].k = "panic") <=> (got.k = "panic")
                 /\ got.k = "panic" => res[t] = got
                 /\ IsSome(got) => res[t] = Ret(got.r.v)
                 /\ got = Ret(None) => res[t] = Ret(<<"", 0>>)

\* get_or_default of a key its section does not hold came back ("", 0)
C11_Witness ==
    /\ pc["t1"] = "done"
    /\ call["t1"] = Call("get_or_default", "S", "K", TRUE, TRUE)
    /\ snap["t1"] = MkDoc(Absent, Obj(<< <<"J", Num(1)>> >>), Absent)
    /\ res["t1"] = Ret(<<"", 0>>)

\* C12: a Some of try_get has "" in the string lane when is_string is false
\* (the integer lane holding the value's i32) and 0 in the integer lane when
\* is_string is true, also when the stored value is an integer (the string
\* lane then holds its text).
C12_UnusedLane ==
    \A t \in Threads :
       (FoundBy(t) /\ IsSome(res[t]))
       => /\ ~call[t].is_string
               => /\ res[t].r.v[1] = ""
                  /\ as_i32(Found(t)) = Some(res[t].r.v[2])
          /\ call[t].is_string => res[t].r.v[2] = 0
          /\ (call[t].is_string /\ ~call[t].with_custom_variables)
               => res[t].r.v[1] = to_string(Found(t))

\* the integer 7 was asked for as a string and came back ("7", 0)
C12_Witness ==
    /\ pc["t1"] = "done"
    /\ call["t1"] = Call("try_get", "S", "K", TRUE, FALSE)
    /\ snap["t1"] = MkDoc(Absent, SectionOf(Num(7)), Absent)
    /\ res["t1"] = Ret(Some(<<"7", 0>>))

\* how read_config_raw fails
RefreshFailures ==
    {Panic("Failed reading config file!"), Panic("Failed parsing config!")}

\* thread t's cache() call fails in this step
RefreshFails(t) ==
    call[t] = CacheCall /\ pc[t] # "panicked" /\ pc'[t] = "panicked"

\* C13: cache() reads and parses the file before it asks for the write lock
\* and holds the lock for the swap only; a refresh that fails does so in
\* read_config_raw, never having asked for or held the lock, and leaves
\* CONFIG as it was.
C13_ParseBeforeLock ==
    /\ [](\A t \in Threads :
             /\ pc[t] \in {"c_parse", "c_write"}
                  => (wholder # t /\ t \notin wwaiting)
             /\ pc[t] = "c_parse" <=> (call[t] = CacheCall /\ newdoc[t] = Null
                                        /\ pc[t] \notin {"done", "panicked"})
             /\ t \in wwaiting <=> pc[t] \in {"c_wait", "c_flag", "c_park",
                                                 "c_woken"}
             /\ wholder = t <=> pc[t] = "c_swap"
             /\ (call[t] = CacheCall /\ pc[t] = "panicked")
                  => (res[t] \in RefreshFailures /\ newdoc[t] = Null))
    /\ [][\A t \in Threads :
             RefreshFails(t)
             => /\ pc[t] = "c_parse"
                /\ wholder # t /\ t \notin wwaiting
                /\ UNCHANGED <<CONFIG, gen, wholder, wwaiting, poisoned>>]_vars
    /\ [][\A t \in Threads :
             (wholder = t /\ pc'[t] # pc[t])
             => /\ CONFIG' = newdoc[t] /\ gen' = gen + 1
                /\ wholder' = NoThread /\ pc'[t] = "done"]_vars
    /\ [][(CONFIG' # CONFIG \/ gen' # gen) => wholder # NoThread]_vars

\* a refresh failed on an unparsable file after the first document had been
\* installed, and a lookup that ran after the failure read the first document
C13_Witness ==
    \E t \in Threads, u \in Threads :
       /\ call[t] = CacheCall /\ pc[t] = "panicked"
       /\ res[t] = Panic("Failed parsing config!")
       /\ CONFIG = DocOne /\ gen = 1 /\ wholder = NoThread /\ ~poisoned
       /\ pc[u] = "tg_look" /\ snap[u] = DocOne

\* t has entered try_get or cache() and the call has neither returned nor
\* panicked
InCall(t) == pc[t] \notin {"idle", "done", "panicked"}

\* the read guard a substituting try_get holds where the claim has it released:
\* none before get_custom_variables takes its own, that one alone while the
\* variables are collected, none while with_variables' loop runs
ReleasedForRewrite(t) ==
    /\ pc[t] \in {"gcv_read", "gcv_park", "gcv_woken", "wv_loop"}
         => rcount[t] = 0
    /\ pc[t] = "gcv_push" => rcount[t] = 1

\* C14: the read lock try_get takes to fetch the value is released before the
\* variable table is collected and before the rewrite loop runs; no thread
\* holds a read lock while it executes with_variables' loop.
C14_Original == \A t \in Threads : ReleasedForRewrite(t)

\* C15: under any interleaving and any admission policy of the lock, every
\* call of try_get and of cache() that has started eventually returns or
\* panics.
C15_Original == \A t \in Threads : InCall(t) ~> Finished(t)

\* C16: in one try_get with substitution the string value and the variable
\* table that rewrites it come from the same cached document: from the read
\* of the value to the end of the call CONFIG is the document first read, no
\* swap happens while a lookup is between its reads, the text handed to
\* with_variables is that document's value and the vector its variables.
C16_SameDocument ==
    /\ [](\A t \in Threads :
             /\ Cardinality(seen[t]) <= 1
             /\ pc[t] \in {"tg_look", "gcv_read", "gcv_park", "gcv_woken",
                         "gcv_push", "wv_loop"}
                  => (CONFIG = snap[t] /\ seen[t] = {gen})
             /\ pc[t] \in {"gcv_read", "gcv_park", "gcv_woken"}
                  => val[t] = to_string(ValueAt(snap[t], call[t].root, call[t].key))
             /\ pc[t] = "wv_loop" => vec[t] = TableOf(snap[t]))
    /\ [][(\E t \in Threads : pc[t] \in {"tg_look", "gcv_read", "gcv_park",
                                         "gcv_woken", "gcv_push"})
             => UNCHANGED <<CONFIG, gen>>]_vars

\* a lookup rewrites the first document's value with the first document's
\* variable while a refresh, the second document parsed, sleeps in write()
C16_Witness ==
    \E t \in Threads, u \in Threads :
       /\ pc[t] = "wv_loop" /\ snap[t] = DocOne /\ CONFIG = DocOne
       /\ val[t] = "1" /\ vec[t] = << <<"A", "1">> >>
       /\ pc[u] = "c_park" /\ newdoc[u] = DocTwo

\* every read of t's lookup was of the document now cached: the lookup began
\* after the last completed cache() and no refresh has come since
ReadCurrent(t) == IsLookup(t) /\ seen[t] = {gen}

\* C17: cache() installs the parsed document whole, and a lookup that starts
\* after a completed cache(), no refresh following, gives what the new
\* document gives: presence of the key, value, and the variable table, which
\* is collected anew from CONFIG (after the second document is installed,
\* S/K comes back "2", the first document's variable A gone).
C17_FreshLookup ==
    /\ [](\A t \in Threads :
             /\ (Finished(t) /\ ReadCurrent(t))
                  => res[t] = LookupOn(CONFIG, call[t])
             /\ (pc[t] = "wv_loop" /\ ReadCurrent(t)) => vec[t] = TableOf(CONFIG)
             /\ (Finished(t) /\ ReadCurrent(t) /\ gen > 0 /\ snap[t] = DocTwo
                 /\ call[t] = Call("try_get", "S", "K", TRUE, TRUE))
                  => res[t] = Ret(Some(<<"2", 0>>)))
    /\ [][\A t \in Threads :
             (pc[t] = "c_swap" /\ pc'[t] = "done")
             => (CONFIG' = newdoc[t] /\ CONFIG' \in ConcDocs)]_vars

\* the second refresh installed the second document; a lookup from before it
\* had got "1" by the first document's variable, one from after it got "2"
C17_Witness ==
    \E t \in Threads, u \in Threads :
       /\ gen = 2 /\ CONFIG = DocTwo
       /\ pc[u] = "done" /\ call[u] = Call("try_get", "S", "K", TRUE, TRUE)
       /\ snap[u] = DocOne /\ seen[u] = {1} /\ res[u] = Ret(Some(<<"1", 0>>))
       /\ pc[t] = "done" /\ call[t] = Call("try_get", "S", "K", TRUE, TRUE)
       /\ seen[t] = {2} /\ res[t] = Ret(Some(<<"2", 0>>))

\* the document defines more than 64 variables
Over64(doc) == Len(TableOf(doc)) > 64

TooManyVariables == Panic("You cannot have more than 64 variables!")

\* C18 as stated: cache() parses and installs a document of more than 64
\* variables, and on that document try_get with is_string false, try_get
\* without substitution and try_get on an absent key all return normally;
\* only try_get on a present key with is_string and with_custom_variables is
\* fatal.
C18_Original ==
    \A t \in Threads :
       /\ (call[t] = CacheCall /\ Over64(newdoc[t]))
          => /\ pc[t] # "panicked"
             /\ pc[t] = "done" => CONFIG = newdoc[t]
       /\ (Finished(t) /\ call[t].op = "try_get" /\ Over64(snap[t]))
          => (res[t].k = "panic"
                <=> (/\ KeyPresent(snap[t], call[t].root, call[t].key)
                     /\ call[t].is_string
                     /\ call[t].with_custom_variables))

\* C18, amended: the bound of 64 variables is enforced where a substitution
\* is made and nowhere else.  cache() parses and installs a document of more
\* than 64 variables; on that document try_get panics over the bound exactly
\* when the key is present, is_string and with_custom_variables; an absent
\* key gives None, a string request without substitution the value's text,
\* an integer request the value's i32 when the value is one (when it is not,
\* the request fails as on any document, by the panic of config.rs:70).
C18_BoundOnSubstitution ==
    \A t \in Threads :
       /\ (call[t] = CacheCall /\ Over64(newdoc[t]))
          => /\ pc[t] # "panicked"
             /\ pc[t] = "done" => CONFIG = newdoc[t]
       /\ (Finished(t) /\ call[t].op = "try_get" /\ Over64(snap[t]))
          => LET present == KeyPresent(snap[t], call[t].root, call[t].key)
             IN  /\ res[t] = TooManyVariables
                      <=> (present /\ call[t].is_string
                           /\ call[t].with_custom_variables)
                 /\ ~present => res[t] = Ret(None)
                 /\ (present /\ call[t].is_string
                     /\ ~call[t].with_custom_variables)
                      => res[t] = Ret(Some(<<to_string(Found(t)), 0>>))
                 /\ (present /\ ~call[t].is_string)
                      => res[t] = IF as_i32(Found(t)).some
                                  THEN Ret(Some(<<"", as_i32(Found(t)).v>>))
                                  ELSE Panic("Failed parsing " \o call[t].root
                                             \o ":" \o call[t].key \o " as i32!")

\* a document of 65 variables is installed and an integer lookup returned
\* the 7 it holds
C18_Witness ==
    /\ gen = 1 /\ CONFIG = MkDoc(ManyVars(65), SectionOf(Num(7)), Absent)
    /\ pc["t1"] = "done"
    /\ call["t1"] = Call("try_get", "S", "K", FALSE, TRUE)
    /\ snap["t1"] = CONFIG
    /\ res["t1"] = Ret(Some(<<"", 7>>))

\* thread t's call panics in this step
Fails(t) == pc[t] # "panicked" /\ pc'[t] = "panicked"

\* the panics of config.rs a call can end with on a lock that is not poisoned
Failures(c) ==
    IF c = CacheCall THEN RefreshFailures
    ELSE {TooManyVariables,
          Panic("Failed parsing " \o c.root \o ":" \o c.key \o " as i32!")}

\* thread u stands where it stood, or has been woken from its sleep on the
\* lock, as the drop of a guard wakes it
StandsOrWoken(u) ==
    \/ pc'[u] = pc[u]
    \/ <<pc[u], pc'[u]>> \in {<<"c_flag", "c_woken">>, <<"c_park", "c_woken">>,
                             <<"tg_park", "tg_woken">>,
                             <<"gcv_park", "gcv_woken">>}

\* C19: a call that panics (a value that is no i32 asked for as an integer,
\* more than 64 variables in a substitution, a refresh that fails) leaves the
\* cache as it was: the panicking step changes neither CONFIG nor the write
\* side of the lock nor any other thread (but to wake it, as every drop of a
\* guard does), the thread holds no guard and waits for none afterwards, the
\* lock is never poisoned, and the other threads' lookups go on giving what
\* their document gives.
C19_FailureIsolated ==
    /\ [](/\ ~poisoned
          /\ \A t \in Threads :
                /\ pc[t] = "panicked"
                     => /\ rcount[t] = 0 /\ wholder # t /\ t \notin wwaiting
                        /\ res[t] \in Failures(call[t])
                /\ (Finished(t) /\ IsLookup(t))
                     => res[t] = LookupOn(snap[t], call[t]))
    /\ [][\A t \in Threads :
             Fails(t)
             => /\ wholder # t
                /\ UNCHANGED <<CONFIG, gen, wholder, wwaiting, poisoned>>
                /\ \A u \in Threads \ {t} :
                      /\ rcount'[u] = rcount[u] /\ StandsOrWoken(u)
                      /\ res'[u] = res[u]]_vars

\* t1 panicked over the 65 variables of the document it read; since then t2
\* has refreshed the cache and got its value from the new document
C19_Witness ==
    /\ pc["t1"] = "panicked" /\ res["t1"] = TooManyVariables
    /\ snap["t1"] = DocOver /\ seen["t1"] = {1}
    /\ gen = 2 /\ CONFIG = DocOne /\ ~poisoned
    /\ pc["t2"] = "done" /\ call["t2"] = Call("try_get", "S", "K", TRUE, TRUE)
    /\ seen["t2"] = {2} /\ res["t2"] = Ret(Some(<<"1", 0>>))

====
